---------------------------- MODULE Spec2Model ----------------------------
(***************************************************************************)
(* The two acquisition scripts of the repository:                          *)
(*   fetch_spglobal.py        requests.Session  (the cookie-session path)  *)
(*   fetch_spglobal_httpx.py  httpx.Client      (the HTTP/2 path)          *)
(* One process runs one of the two modules (variant).  Every function of   *)
(* the modules is one action; the Source Service's answers (the warm-up    *)
(* response and the API response) are the inputs of the actions.           *)
(***************************************************************************)
EXTENDS Integers, Sequences, FiniteSets, TLC

VARIABLES
    variant,    \* which module the process runs: "requests" or "httpx"
    session,    \* fetch_spglobal.py: the requests.Session the caller holds
    HEADERS,    \* fetch_spglobal_httpx.py: the module-level HEADERS mapping
    last        \* the call that completed last: arguments, requests sent, outcome

vars == <<variant, session, HEADERS, last>>

(***************************************************************************)
(* Bounds of the model.                                                    *)
(***************************************************************************)
\* Longest performance array the Source Service answers with.
MaxPerfLen == 1

(***************************************************************************)
(* Python values.                                                          *)
(***************************************************************************)
\* None, as the value of an optional str argument.
None == "<None>"
\* An argument the caller leaves out, so that the default applies.
Omitted == "<omitted>"

\* bool(s) of an optional str: None and "" are falsy.
Truthy(s) == s \notin {None, ""}

\* The value a parameter with a default takes.
Default(arg, dflt) == IF arg = Omitted THEN dflt ELSE arg

\* A mapping with no key.
EmptyMap == [k \in {} |-> ""]

\* dict(base, **over): the keys of over win, base itself is not changed.
Merge(base, over) ==
    [k \in DOMAIN base \cup DOMAIN over |->
        IF k \in DOMAIN over THEN over[k] ELSE base[k]]

(***************************************************************************)
(* URLs.                                                                   *)
(***************************************************************************)
\* fetch_spglobal.py main: base_url, and the Referer of fetch_index_data.
OriginUrl == "https://www.spglobal.com/spdji/en/"

\* fetch_spglobal.py fetch_index_data: url.
ApiUrl == "https://www.spglobal.com/spdji/en/util/redesign/get-index-comparison-data.dot"

\* fetch_spglobal_httpx.py fetch_index_data: base_url.
HttpxBaseUrl == "https://www.spglobal.com"

\* fetch_spglobal_httpx.py: f"{base_url}/spdji/en/".
HttpxOriginUrl == HttpxBaseUrl \o "/spdji/en/"

\* fetch_spglobal_httpx.py: api_url.
HttpxApiUrl == HttpxBaseUrl \o "/spdji/en/util/redesign/get-index-comparison-data.dot"

(***************************************************************************)
(* Header profiles.                                                        *)
(***************************************************************************)
UserAgent == "Mozilla/5.0 (Macintosh; Intel Mac OS X 10.15; rv:147.0) Gecko/20100101 Firefox/147.0"

\* The thirteen headers create_browser_session puts on the session.
BrowserHeaders ==
    "User-Agent" :> UserAgent
    @@ "Accept" :> "text/html,application/xhtml+xml,application/xml;q=0.9,*/*;q=0.8"
    @@ "Accept-Language" :> "en-CA,en-US;q=0.9,en;q=0.8"
    @@ "Accept-Encoding" :> "gzip, deflate, br, zstd"
    @@ "DNT" :> "1"
    @@ "Connection" :> "keep-alive"
    @@ "Upgrade-Insecure-Requests" :> "1"
    @@ "Sec-Fetch-Dest" :> "document"
    @@ "Sec-Fetch-Mode" :> "navigate"
    @@ "Sec-Fetch-Site" :> "none"
    @@ "Sec-Fetch-User" :> "?1"
    @@ "Sec-GPC" :> "1"
    @@ "Priority" :> "u=0, i"

\* The twelve headers of the module-level HEADERS of the HTTP/2 script.
HttpxHeaders ==
    "User-Agent" :> UserAgent
    @@ "Accept" :> "text/html,application/xhtml+xml,application/xml;q=0.9,*/*;q=0.8"
    @@ "Accept-Language" :> "en-CA,en-US;q=0.9,en;q=0.8"
    @@ "Accept-Encoding" :> "gzip, deflate, br, zstd"
    @@ "DNT" :> "1"
    @@ "Connection" :> "keep-alive"
    @@ "Upgrade-Insecure-Requests" :> "1"
    @@ "Sec-Fetch-Dest" :> "document"
    @@ "Sec-Fetch-Mode" :> "navigate"
    @@ "Sec-Fetch-Site" :> "none"
    @@ "Sec-Fetch-User" :> "?1"
    @@ "Sec-GPC" :> "1"

\* The headers a fresh requests.Session() / httpx.Client() carries before the
\* script's own are put over them (all four are overridden by the profile).
LibraryDefaultHeaders ==
    "User-Agent" :> "python-client"
    @@ "Accept" :> "*/*"
    @@ "Accept-Encoding" :> "gzip, deflate"
    @@ "Connection" :> "keep-alive"

\* The per-request headers of the API GET (both scripts).
ApiHeaderOverrides(referer) ==
    "Sec-Fetch-Site" :> "same-origin" @@ "Referer" :> referer

\* The API parameters with the period token normalised (trimmed, first letter
\* lowered) instead of passed on as the caller wrote it.
ApiParamsReinterpreted(index_id, period, language_id) ==
    "compareArray" :> index_id
    @@ "periodFlag" :> (IF period = "TenYearFlag " THEN "tenYearFlag" ELSE period)
    @@ "language_id" :> language_id

\* params of the API GET (both scripts).
ApiParams(index_id, period, language_id) ==
    "compareArray" :> index_id
    @@ "periodFlag" :> period
    @@ "language_id" :> language_id

(***************************************************************************)
(* The Source Service's answers.                                           *)
(***************************************************************************)
\* The cookies the service sets, by name: the bot protection's two on the origin
\* page, the application's on the API.  All are scoped to the whole site.
SiteCookie  == "ak_bmsc"
OtherCookie == "bm_sv"
ApiCookie   == "JSESSIONID"

\* One element of indexPerformanceForComparison with every field the scripts read.
FullPerf ==
    [indexName |-> "S&P/TSX Composite Index", indexValue |-> "24500.12",
     dailyReturn |-> "0.35", yearToDateReturn |-> "12.4", oneYearReturn |-> "18.9"]

\* An element the service sends without oneYearReturn.
PartialPerf ==
    [indexName |-> "S&P 500", indexValue |-> "5000.0",
     dailyReturn |-> "0.1", yearToDateReturn |-> "1.5"]

\* The five fields main reads of the first element, in the order it reads them.
PerfFields ==
    <<"indexName", "indexValue", "dailyReturn", "yearToDateReturn", "oneYearReturn">>

PerfArrays ==
    UNION {[1..n -> {FullPerf, PartialPerf}] : n \in 0..MaxPerfLen}

\* A response body.  kind "html": not JSON (a challenge page).  kind "object": a
\* JSON object; status is the value of its "status" key ("absent": no such key);
\* holder says whether performanceComparisonHolder.indexPerformanceForComparison
\* is there, perf is that array.
HtmlBody == [kind |-> "html", status |-> "absent", holder |-> FALSE, perf |-> <<>>]
GoodBody == [kind |-> "object", status |-> "true", holder |-> TRUE, perf |-> <<FullPerf>>]

ObjectBodies ==
    {[kind |-> "object", status |-> st, holder |-> TRUE, perf |-> a] :
        st \in {"true", "false", "absent"}, a \in PerfArrays}
    \cup {[kind |-> "object", status |-> st, holder |-> FALSE, perf |-> <<>>] :
        st \in {"true", "false", "absent"}}

\* The final status codes the service answers with (redirects with a Location
\* are followed by both clients; 304 and 101 are final).
StatusCodes == {101, 200, 299, 304, 403, 503}

\* A connection, TLS or timeout failure: the client raises instead of answering.
TransportFailure ==
    [kind |-> "transport_error", status |-> 0, setCookies |-> {}, body |-> HtmlBody]

HttpResponse(st, cookies, body) ==
    [kind |-> "http", status |-> st, setCookies |-> cookies, body |-> body]

\* What the origin page answers to the warm-up GET: a failure, the page, or a
\* refusal of the bot protection, with or without cookies.
WarmResponses ==
    {TransportFailure,
     HttpResponse(200, {}, HtmlBody),
     HttpResponse(200, {SiteCookie, OtherCookie}, HtmlBody),
     HttpResponse(403, {SiteCookie}, HtmlBody),
     HttpResponse(503, {}, HtmlBody)}

\* What the API endpoint answers: a failure, any status with a challenge page or
\* with the data, and 200 with every shape of JSON object.
ApiResponses ==
    {TransportFailure, HttpResponse(200, {ApiCookie}, GoodBody)}
    \cup {HttpResponse(st, {}, b) : st \in StatusCodes, b \in {HtmlBody, GoodBody}}
    \cup {HttpResponse(200, {}, b) : b \in ObjectBodies}

\* The response of a request that was never sent.
NoResponse ==
    [kind |-> "none", status |-> 0, setCookies |-> {}, body |-> HtmlBody]

(***************************************************************************)
(* The HTTP clients (requests.Session, httpx.Client).                      *)
(***************************************************************************)
\* A fresh requests.Session() / httpx.Client(headers=...): the library's default
\* headers with the script's put over them, an empty cookie jar, open.  Two
\* history fields serve the properties: visited, the URLs a GET of this client
\* got a response from, and created_for, the base_url the session was made with.
NewClient(headers) ==
    [exists |-> TRUE, headers |-> Merge(LibraryDefaultHeaders, headers),
     cookies |-> {}, closed |-> FALSE, visited |-> {}, created_for |-> None]

\* No session yet.
NoSession ==
    [exists |-> FALSE, headers |-> EmptyMap, cookies |-> {}, closed |-> FALSE,
     visited |-> {}, created_for |-> None]

\* A request built without the cookies of the jar.
BuildRequestWithoutJar(client, url, params, headers) ==
    [url |-> url, params |-> params,
     headers |-> Merge(client.headers, headers),
     cookies |-> {}]

\* The request client.get(url, params=, headers=) puts on the wire: the client's
\* headers with the per-request ones over them, and the cookies of the jar.
BuildRequest(client, url, params, headers) ==
    [url |-> url, params |-> params,
     headers |-> Merge(client.headers, headers),
     cookies |-> client.cookies]

\* A get whose per-request headers are written into the client's own headers
\* (session.headers.update(headers) before the request).
ClientGetUpdatingHeaders(client, url, params, headers, resp) ==
    LET c == [client EXCEPT !.headers = Merge(@, headers)]
    IN  [request |-> [url |-> url, params |-> params, headers |-> c.headers,
                      cookies |-> c.cookies],
         raised  |-> resp.kind = "transport_error",
         response |-> resp,
         client  |-> IF resp.kind = "transport_error" THEN c
                     ELSE [c EXCEPT !.cookies = @ \cup resp.setCookies,
                                    !.visited = @ \cup {url}]]

\* client.get(...): sends the request; the jar takes the cookies of the response.
\* The client's own headers are not touched.  raised: a transport failure.
ClientGet(client, url, params, headers, resp) ==
    [request |-> BuildRequest(client, url, params, headers),
     raised  |-> resp.kind = "transport_error",
     response |-> resp,
     client  |-> IF resp.kind = "transport_error" THEN client
                 ELSE [client EXCEPT !.cookies = @ \cup resp.setCookies,
                                     !.visited = @ \cup {url}]]

\* requests: Response.raise_for_status() raises HTTPError for 400..599.
RequestsRaisesForStatus(status) == status >= 400 /\ status < 600

\* httpx: Response.raise_for_status() raises HTTPStatusError unless is_success,
\* that is unless 200 <= status <= 299.
HttpxRaisesForStatus(status) == ~(status >= 200 /\ status <= 299)

\* response.json() raises a JSON decoding error on a body that is not JSON.
JsonRaises(body) == body.kind # "object"

(***************************************************************************)
(* Outcomes of a call.                                                     *)
(***************************************************************************)
\* No value: what a call that raised, or that returns no data, hands back.
NoBody == [kind |-> "none", status |-> "absent", holder |-> FALSE, perf |-> <<>>]

\* return body
Returned(body) == [kind |-> "return", exc |-> "", body |-> body, record |-> <<>>]

\* raise: exc is "transport" (connection, TLS, timeout), "http_status"
\* (raise_for_status), "json_decode" (response.json()), or the name of the
\* Python exception main's own code raises ("KeyError", "IndexError").
Raised(exc) == [kind |-> "raise", exc |-> exc, body |-> NoBody, record |-> <<>>]

\* main returns after printing the record rec (<<>>: it printed none).
Printed(rec) == [kind |-> "return", exc |-> "", body |-> NoBody, record |-> rec]

\* What a function did: the requests it sent, in order, how it ended, and the
\* client (session) it worked with as it is when the function is left.
Did(wire, outcome, client) == [wire |-> wire, outcome |-> outcome, client |-> client]

(***************************************************************************)
(* fetch_spglobal.py                                                       *)
(***************************************************************************)
\* create_browser_session with the warm-up response checked
\* (session.get(base_url).raise_for_status()).
create_browser_session_checked(base_url, warm) ==
    LET s0 == [NewClient(BrowserHeaders) EXCEPT !.created_for = base_url]
        g  == ClientGet(s0, base_url, EmptyMap, EmptyMap, warm)
    IN  IF Truthy(base_url)
        THEN IF g.raised
             THEN Did(<<g.request>>, Raised("transport"), s0)
             ELSE IF RequestsRaisesForStatus(g.response.status)
             THEN Did(<<g.request>>, Raised("http_status"), g.client)
             ELSE Did(<<g.request>>, Returned(NoBody), g.client)
        ELSE Did(<<>>, Returned(NoBody), s0)

\* create_browser_session(base_url), the origin answering warm.
create_browser_session(base_url, warm) ==
    LET s0 == [NewClient(BrowserHeaders) EXCEPT !.created_for = base_url]
        g  == ClientGet(s0, base_url, EmptyMap, EmptyMap, warm)
    IN  IF Truthy(base_url)
        THEN IF g.raised
             THEN Did(<<g.request>>, Raised("transport"), s0)
             ELSE Did(<<g.request>>, Returned(NoBody), g.client)
        ELSE Did(<<>>, Returned(NoBody), s0)

\* How the API GET of fetch_index_data(session, ...) ends: response is the
\* result of session.get; raise_for_status(), then json().
RequestsApiOutcome(g) ==
    IF g.raised THEN Raised("transport")
    ELSE IF RequestsRaisesForStatus(g.response.status) THEN Raised("http_status")
    ELSE IF JsonRaises(g.response.body) THEN Raised("json_decode")
    ELSE Returned(g.response.body)

\* fetch_index_data(session, index_id, period, language_id), the API answering api.
\* An argument left out takes its default.
fetch_index_data(sess, index_id, period, language_id, api) ==
    LET params  == ApiParams(index_id, Default(period, "tenYearFlag"),
                             Default(language_id, "1"))
        headers == ApiHeaderOverrides("https://www.spglobal.com/spdji/en/")
        g       == ClientGet(sess, ApiUrl, params, headers, api)
    IN  Did(<<g.request>>, RequestsApiOutcome(g), g.client)

\* bool(data.get("status")).
StatusTruthy(data) == data.status = "true"

\* The part of main after data = fetch_index_data(...): both scripts have the
\* same lines.  data["performanceComparisonHolder"]["indexPerformanceForComparison"][0]
\* raises KeyError without the holder and IndexError on an empty array; perf[f]
\* raises KeyError for a field the element lacks.
PrintRecord(data) ==
    IF ~StatusTruthy(data) THEN Printed(<<>>)
    ELSE IF ~data.holder THEN Raised("KeyError")
    ELSE IF Len(data.perf) = 0 THEN Raised("IndexError")
    ELSE LET perf == data.perf[1]
         IN  IF \E i \in DOMAIN PerfFields : PerfFields[i] \notin DOMAIN perf
             THEN Raised("KeyError")
             ELSE Printed(<<[i \in DOMAIN PerfFields |-> perf[PerfFields[i]]]>>)

\* main() of fetch_spglobal.py: create_browser_session(base_url), then
\* fetch_index_data(session, "5457755"), then the record.  The session is a
\* local of main and is never closed.
main(warm, api) ==
    LET c == create_browser_session(OriginUrl, warm)
        f == fetch_index_data(c.client, "5457755", Omitted, Omitted, api)
    IN  IF c.outcome.kind = "raise" THEN c
        ELSE IF f.outcome.kind = "raise"
        THEN Did(c.wire \o f.wire, f.outcome, f.client)
        ELSE Did(c.wire \o f.wire, PrintRecord(f.outcome.body), f.client)

(***************************************************************************)
(* fetch_spglobal_httpx.py                                                 *)
(***************************************************************************)
\* Leaving the with block: httpx.Client.__exit__ closes the client.
CloseClient(client) == [client EXCEPT !.closed = TRUE]

\* How the API GET of the HTTP/2 fetch_index_data ends.
HttpxApiOutcome(g) ==
    IF g.raised THEN Raised("transport")
    ELSE IF HttpxRaisesForStatus(g.response.status) THEN Raised("http_status")
    ELSE IF JsonRaises(g.response.body) THEN Raised("json_decode")
    ELSE Returned(g.response.body)

\* fetch_index_data(index_id, period, language_id) of the HTTP/2 script, with the
\* module-level mapping hdrs, the origin answering warm and the API answering api.
httpx_fetch_index_data(hdrs, index_id, period, language_id, warm, api) ==
    LET c0      == NewClient(hdrs)
        g1      == ClientGet(c0, HttpxOriginUrl, EmptyMap, EmptyMap, warm)
        params  == ApiParams(index_id, Default(period, "tenYearFlag"),
                             Default(language_id, "1"))
        headers == ApiHeaderOverrides(HttpxBaseUrl \o "/spdji/en/")
        g2      == ClientGet(g1.client, HttpxApiUrl, params, headers, api)
    IN  IF g1.raised
        THEN Did(<<g1.request>>, Raised("transport"), CloseClient(c0))
        ELSE Did(<<g1.request, g2.request>>, HttpxApiOutcome(g2),
                 CloseClient(g2.client))

\* main() of fetch_spglobal_httpx.py.
httpx_main(hdrs, warm, api) ==
    LET f == httpx_fetch_index_data(hdrs, "5457755", Omitted, Omitted, warm, api)
    IN  IF f.outcome.kind = "raise" THEN f
        ELSE Did(f.wire, PrintRecord(f.outcome.body), f.client)


(***************************************************************************)
(* The callers' inputs.                                                    *)
(***************************************************************************)
\* base_url of create_browser_session: left at its default None, empty, or the
\* origin page.
BaseUrls == {None, "", OriginUrl}

\* (index_id, period, language_id) as the caller passes them.
CallArgs ==
    {<<"5457755", Omitted, Omitted>>,
     <<"92030862", "oneYearFlag", "2">>,
     <<"5457755", "TenYearFlag ", Omitted>>}

\* The record of a completed call.
Call(op, base_url, args, warm, api, did) ==
    [op |-> op, base_url |-> base_url,
     index_id |-> args[1], period |-> args[2], language_id |-> args[3],
     warm |-> warm, api |-> api,
     wire |-> did.wire, outcome |-> did.outcome, client |-> did.client]

\* The arguments of main's own call of fetch_index_data.
MainArgs == <<"5457755", Omitted, Omitted>>

\* The API is asked only when the warm-up GET did not raise.
ApiAnswersAfter(warm) ==
    IF warm.kind = "transport_error" THEN {NoResponse} ELSE ApiResponses

(***************************************************************************)
(* The state machine.                                                      *)
(***************************************************************************)
Init ==
    /\ variant \in {"requests", "httpx"}
    /\ session = NoSession
    /\ HEADERS = HttpxHeaders
    /\ last = Call("start", None, <<"", "", "">>, NoResponse, NoResponse,
                   Did(<<>>, Returned(NoBody), NoSession))

\* session = create_browser_session(base_url); the caller has the session only
\* when the call returns.
CreateBrowserSession ==
    /\ variant = "requests"
    /\ \E base_url \in BaseUrls :
         \E warm \in (IF Truthy(base_url) THEN WarmResponses ELSE {NoResponse}) :
            LET did == create_browser_session(base_url, warm)
            IN  /\ session' = IF did.outcome.kind = "return" THEN did.client ELSE session
                /\ last' = Call("create_browser_session", base_url, <<"", "", "">>,
                                warm, NoResponse, did)
    /\ UNCHANGED <<variant, HEADERS>>

\* data = fetch_index_data(session, index_id, period, language_id) on the
\* session the caller holds.
FetchIndexData ==
    /\ variant = "requests"
    /\ session.exists
    /\ \E args \in CallArgs, api \in ApiResponses :
            LET did == fetch_index_data(session, args[1], args[2], args[3], api)
            IN  /\ session' = did.client
                /\ last' = Call("fetch_index_data", None, args, NoResponse, api, did)
    /\ UNCHANGED <<variant, HEADERS>>

\* main() of fetch_spglobal.py, from its first line to its last.
Main ==
    /\ variant = "requests"
    /\ \E warm \in WarmResponses :
         \E api \in ApiAnswersAfter(warm) :
            last' = Call("main", OriginUrl, MainArgs, warm, api, main(warm, api))
    /\ UNCHANGED <<variant, session, HEADERS>>

\* data = fetch_index_data(index_id, period, language_id) of the HTTP/2 script.
HttpxFetchIndexData ==
    /\ variant = "httpx"
    /\ \E args \in CallArgs, warm \in WarmResponses :
         \E api \in ApiAnswersAfter(warm) :
            last' = Call("fetch_index_data", None, args, warm, api,
                         httpx_fetch_index_data(HEADERS, args[1], args[2], args[3],
                                                warm, api))
    /\ UNCHANGED <<variant, session, HEADERS>>

\* main() of fetch_spglobal_httpx.py.
HttpxMain ==
    /\ variant = "httpx"
    /\ \E warm \in WarmResponses :
         \E api \in ApiAnswersAfter(warm) :
            last' = Call("main", None, MainArgs, warm, api,
                         httpx_main(HEADERS, warm, api))
    /\ UNCHANGED <<variant, session, HEADERS>>

Next ==
    \/ CreateBrowserSession
    \/ FetchIndexData
    \/ Main
    \/ HttpxFetchIndexData
    \/ HttpxMain

Spec == Init /\ [][Next]_vars

(***************************************************************************)
(* Vocabulary of the properties.                                           *)
(***************************************************************************)
\* The API GETs among the requests of the last call.
ApiRequests == {i \in DOMAIN last.wire : last.wire[i].url = ApiUrl}

\* The warm-up GETs among the requests of the last call.
WarmupRequests == {i \in DOMAIN last.wire : last.wire[i].url = OriginUrl}

\* The last call is a whole fetch: warm-up and API GET in one call.
WholeFetch ==
    \/ last.op = "main"
    \/ variant = "httpx" /\ last.op = "fetch_index_data"

\* The last call is a fetch_index_data of either script.
IsFetchIndexData == last.op = "fetch_index_data"

Is2xx(status) == status >= 200 /\ status <= 299

\* The response validates: status truthy and a non-empty performance array.
ValidData(data) == StatusTruthy(data) /\ data.holder /\ Len(data.perf) > 0

\* The strategies a main invokes, in order: each script calls its own one.
StrategiesInvoked == IF variant = "requests" THEN <<"CookieSession">> ELSE <<"Http2">>

\* The fixed priority order of the strategies.
PriorityOrder == <<"CookieSession", "Http2", "Browser">>

\* What the API response alone makes of a fetch: the outcome of fetch_index_data
\* computed from the API response, and for main the record made from its body.
ApiOnlyOutcome ==
    LET g == [raised |-> last.api.kind = "transport_error", response |-> last.api]
        o == IF variant = "requests" THEN RequestsApiOutcome(g) ELSE HttpxApiOutcome(g)
    IN  IF last.op = "main" /\ o.kind = "return" THEN PrintRecord(o.body) ELSE o

\* The cookie-session path on the inputs of the last call: create_browser_session
\* on the origin page, then fetch_index_data on the session it returns.
CookieSessionRun ==
    LET c == create_browser_session(OriginUrl, last.warm)
        f == fetch_index_data(c.client, last.index_id, last.period,
                              last.language_id, last.api)
    IN  IF c.outcome.kind = "raise"
        THEN [wire |-> c.wire, outcome |-> c.outcome]
        ELSE [wire |-> c.wire \o f.wire, outcome |-> f.outcome]

(***************************************************************************)
(* C1.  A warm-up GET that fails at the transport does not fail the fetch: *)
(* the API GET is still sent, with no cookie, and decides the outcome.     *)
(***************************************************************************)
C1_WarmupFailureIsNotFatal ==
    (WholeFetch /\ last.warm.kind = "transport_error") =>
        /\ \E i \in ApiRequests : last.wire[i].cookies = {}
        /\ last.outcome = ApiOnlyOutcome

(***************************************************************************)
(* C2.  fetch_index_data of either script raises the HTTP status error for *)
(* every API status outside 200..299, and returns a body only on 2xx.      *)
(***************************************************************************)
C2_NonSuccessStatusRaises ==
    (IsFetchIndexData /\ last.api.kind = "http") =>
        /\ ~Is2xx(last.api.status) => last.outcome = Raised("http_status")
        /\ last.outcome.kind = "return" => Is2xx(last.api.status)

(***************************************************************************)
(* C3.  main makes a record only of data whose status is truthy and whose  *)
(* performance array is non-empty; on any other data it makes none and     *)
(* ends in a reported fetch / invalid-response error.                      *)
(***************************************************************************)
C3_RecordOnlyFromValidData ==
    (last.op = "main" /\ last.api.kind = "http" /\ Is2xx(last.api.status)
        /\ last.api.body.kind = "object") =>
        /\ last.outcome.record # <<>> => ValidData(last.api.body)
        /\ ~ValidData(last.api.body) =>
              /\ last.outcome.kind = "raise"
              /\ last.outcome.exc \in {"FetchError", "InvalidResponseError"}

(***************************************************************************)
(* C4.  A fetch tries the strategies in the order Cookie-Session, HTTP/2,  *)
(* Browser and stops at the first that validates: when it ends, the        *)
(* strategies it invoked are a prefix of that order, and either the last   *)
(* of them produced a record or all three were tried.                      *)
(***************************************************************************)
C4_FallbackInPriorityOrder ==
    last.op = "main" =>
        /\ StrategiesInvoked = SubSeq(PriorityOrder, 1, Len(StrategiesInvoked))
        /\ \/ last.outcome.kind = "return" /\ last.outcome.record # <<>>
           \/ Len(StrategiesInvoked) = Len(PriorityOrder)

(***************************************************************************)
(* C5.  The HTTP/2 fetch and the cookie-session fetch are interchangeable: *)
(* on the same arguments and the same answers of the service they send the *)
(* same requests (URL, parameters, headers, cookies) and end the same way. *)
(***************************************************************************)
C5_StrategiesInterchangeable ==
    (variant = "httpx" /\ IsFetchIndexData) =>
        /\ last.wire = CookieSessionRun.wire
        /\ last.outcome = CookieSessionRun.outcome

(***************************************************************************)
(* C6.  When an attempt is over, however it ended, the session or client   *)
(* it opened is closed.                                                    *)
(***************************************************************************)
C6_ResourceReleasedOnEveryExit ==
    (WholeFetch /\ last.client.exists) => last.client.closed

(***************************************************************************)
(* C7.  Every request of a fetch other than the warm-up goes to the one    *)
(* API URL with exactly compareArray, periodFlag and language_id, each the *)
(* caller's string as passed; an omitted period is "tenYearFlag" and an    *)
(* omitted language_id is "1".  The API GET is sent whenever the warm-up   *)
(* did not fail.                                                           *)
(***************************************************************************)
C7_QueryParamsVerbatim ==
    (IsFetchIndexData \/ last.op = "main") =>
        /\ \A i \in DOMAIN last.wire \ WarmupRequests :
              /\ last.wire[i].url =
                    "https://www.spglobal.com/spdji/en/util/redesign/get-index-comparison-data.dot"
              /\ DOMAIN last.wire[i].params = {"compareArray", "periodFlag", "language_id"}
              /\ last.wire[i].params["compareArray"] = last.index_id
              /\ last.wire[i].params["periodFlag"] =
                    (IF last.period = Omitted THEN "tenYearFlag" ELSE last.period)
              /\ last.wire[i].params["language_id"] =
                    (IF last.language_id = Omitted THEN "1" ELSE last.language_id)
        /\ last.warm.kind # "transport_error" => Cardinality(ApiRequests) = 1

\* An HTTP/2 fetch with a period token that is not the canonical spelling and
\* no language_id has sent its API GET.
C7_Witness ==
    /\ variant = "httpx" /\ IsFetchIndexData
    /\ last.period = "TenYearFlag " /\ last.language_id = Omitted
    /\ \E i \in ApiRequests :
          /\ last.wire[i].params["periodFlag"] = "TenYearFlag "
          /\ last.wire[i].params["language_id"] = "1"

(***************************************************************************)
(* C8, as claimed.  No API GET is sent by a client that has not completed  *)
(* the warm-up GET first, a session made with no base_url included, and    *)
(* the API GET carries every cookie the warm-up set.                       *)
(***************************************************************************)
C8_ApiGetOnlyAfterWarmup ==
    \A i \in ApiRequests :
        /\ OriginUrl \in last.client.visited
        /\ \A j \in WarmupRequests : j < i
        /\ WholeFetch => last.warm.setCookies \subseteq last.wire[i].cookies

(***************************************************************************)
(* C8, amended.  An API GET is sent only by a client that completed the    *)
(* warm-up GET before it, except on a session that create_browser_session  *)
(* made with no base_url (None or ""), which sends it with no warm-up; the *)
(* API GET carries every cookie the jar held, those of the warm-up among   *)
(* them.                                                                   *)
(***************************************************************************)
C8_ApiGetAfterWarmupUnlessNoBaseUrl ==
    \A i \in ApiRequests :
        /\ \/ OriginUrl \in last.client.visited
           \/ /\ variant = "requests" /\ last.op = "fetch_index_data"
              /\ ~Truthy(last.client.created_for)
        /\ Truthy(last.client.created_for) => OriginUrl \in last.client.visited
        /\ \A j \in WarmupRequests : j < i
        /\ WholeFetch =>
              /\ WarmupRequests # {}
              /\ last.warm.kind = "http"
              /\ last.warm.setCookies \subseteq last.wire[i].cookies
        /\ (last.client.cookies \ last.api.setCookies) \subseteq last.wire[i].cookies

\* fetch_index_data on a session made for the origin page, whose warm-up set
\* cookies: the API GET carries them.
C8_Witness ==
    /\ variant = "requests" /\ last.op = "fetch_index_data"
    /\ last.client.created_for = OriginUrl
    /\ \E i \in ApiRequests : {SiteCookie, OtherCookie} \subseteq last.wire[i].cookies

\* fetch_index_data on a session made with no base_url has sent its API GET.
C8_NoBaseUrlWitness ==
    /\ variant = "requests" /\ last.op = "fetch_index_data"
    /\ last.client.created_for = None
    /\ ApiRequests # {}
    /\ OriginUrl \notin last.client.visited

(***************************************************************************)
(* C9.  The status of the warm-up response is never checked: whatever it   *)
(* is, create_browser_session returns the session, the API GET is sent,    *)
(* and the fetch ends as the API response alone decides.                   *)
(***************************************************************************)
C9_WarmupStatusIgnored ==
    /\ (last.op = "create_browser_session" /\ last.warm.kind = "http") =>
          last.outcome.kind = "return"
    /\ (WholeFetch /\ last.warm.kind = "http") =>
          /\ Cardinality(ApiRequests) = 1
          /\ last.outcome = ApiOnlyOutcome

\* A main whose warm-up was refused with 403 and that printed a record.
C9_Witness ==
    /\ last.op = "main" /\ variant = "requests"
    /\ last.warm.kind = "http" /\ last.warm.status = 403
    /\ last.outcome.kind = "return" /\ last.outcome.record # <<>>

(***************************************************************************)
(* C10.  The headers of the API GET are of that request only: the session  *)
(* headers, the headers of the client of the last call and the module's    *)
(* HEADERS stay the profile (Sec-Fetch-Site "none", no Referer); the API   *)
(* GET carries same-origin and the Referer over the other profile headers, *)
(* and a warm-up GET carries the profile as it is.                         *)
(***************************************************************************)
C10_OverridesArePerRequest ==
    LET profile == IF variant = "requests" THEN BrowserHeaders ELSE HttpxHeaders
        kept == {"User-Agent", "Accept", "Accept-Language", "Accept-Encoding",
                 "Sec-Fetch-Dest", "Sec-Fetch-Mode"}
        IsProfile(h) ==
            /\ h = profile
            /\ h["Sec-Fetch-Site"] = "none"
            /\ "Referer" \notin DOMAIN h
    IN  /\ session.exists => IsProfile(session.headers)
        /\ last.client.exists => IsProfile(last.client.headers)
        /\ HEADERS = HttpxHeaders
        /\ HEADERS["Sec-Fetch-Site"] = "none" /\ "Referer" \notin DOMAIN HEADERS
        /\ \A i \in ApiRequests :
              /\ \A k \in kept : last.wire[i].headers[k] = profile[k]
              /\ last.wire[i].headers["Sec-Fetch-Site"] = "same-origin"
              /\ last.wire[i].headers["Referer"] = "https://www.spglobal.com/spdji/en/"
        /\ \A i \in WarmupRequests : IsProfile(last.wire[i].headers)

\* A fetch_index_data that raised on a session an earlier fetch_index_data had
\* already used with success (the jar holds the API's cookie).
C10_Witness ==
    /\ variant = "requests" /\ last.op = "fetch_index_data"
    /\ last.outcome.kind = "raise"
    /\ ApiCookie \in session.cookies
    /\ \E i \in ApiRequests : last.wire[i].headers["Sec-Fetch-Site"] = "same-origin"

=============================================================================
